---------------------------- MODULE Spec2Model ----------------------------
(***************************************************************************)
(* Model of omen-rgb.py: the colour utilities (hex_to_rgb, rgb_to_hex),    *)
(* the write primitive sudo_write, the transition set_color, the           *)
(* RainbowThread loop and the RGBController handlers that start and stop   *)
(* it.                                                                     *)
(*                                                                         *)
(* A hex string is a sequence of one-character strings.  Python floats are *)
(* IEEE-754 doubles; the interpolation of set_color is computed on exact   *)
(* binary expansions (sequences of bits, least significant first) because  *)
(* int(r0 + (r1 - r0) * (i / 20)) differs from the exact quotient for some *)
(* inputs.                                                                 *)
(***************************************************************************)
EXTENDS Integers, Sequences, FiniteSets, TLC

(***************************************************************************)
(* Program constants                                                       *)
(***************************************************************************)
STATIC_DURATION_MS == 100
RAIN_DELAY_MS == 10
steps == 20
ChanMax == 255
\* None is the empty sequence: line 53 tests _last_color for truth, and None
\* and the empty string are both false there
None == <<>>
\* a raised ValueError: -1 from Int16, the empty tuple from hex_to_rgb
ValueError == -1
Raised == <<>>

PRESETS ==
  [ Red    |-> <<"f","f","0","0","0","0">>,
    Green  |-> <<"0","0","f","f","0","0">>,
    Blue   |-> <<"0","0","0","0","f","f">>,
    Purple |-> <<"8","0","0","0","8","0">>,
    White  |-> <<"f","f","f","f","f","f">>,
    Orange |-> <<"f","f","7","f","0","0">> ]

(***************************************************************************)
(* Strings: str.lower(), slices, int(s, 16), format(n, "02x")              *)
(***************************************************************************)
LowerDigits == <<"0","1","2","3","4","5","6","7","8","9","a","b","c","d","e","f">>
UpperDigits == <<"0","1","2","3","4","5","6","7","8","9","A","B","C","D","E","F">>

\* value of one character as a base-16 digit, -1 when it is not one
DigitVal(ch) ==
  IF \E k \in 1..16 : LowerDigits[k] = ch
    THEN (CHOOSE k \in 1..16 : LowerDigits[k] = ch) - 1
    ELSE IF \E k \in 1..16 : UpperDigits[k] = ch
      THEN (CHOOSE k \in 1..16 : UpperDigits[k] = ch) - 1
      ELSE -1

\* str.lower() on one character
LowerChar(ch) == IF DigitVal(ch) >= 10 THEN LowerDigits[DigitVal(ch) + 1] ELSE ch

\* str.lower()
Lower(s) == [k \in 1..Len(s) |-> LowerChar(s[k])]

\* the Python slice s[a:b] for 0 <= a <= b (clipped to the string)
Slice(s, a, b) ==
  LET hi == IF b < Len(s) THEN b ELSE Len(s)
  IN  IF a >= hi THEN <<>> ELSE SubSeq(s, a + 1, hi)

\* int(s, 16) over the alphabet of digits and non-digits; ValueError for the
\* empty string and for a string holding a character that is not a digit
RECURSIVE IntAcc(_, _)
IntAcc(s, acc) ==
  IF s = <<>> THEN acc ELSE IntAcc(Tail(s), acc * 16 + DigitVal(Head(s)))

Int16(s) ==
  IF s = <<>> \/ \E k \in 1..Len(s) : DigitVal(s[k]) = -1
    THEN ValueError
    ELSE IntAcc(s, 0)

\* format(n, "x") for n >= 0
RECURSIVE FmtX(_)
FmtX(n) ==
  IF n < 16 THEN <<LowerDigits[n + 1]>>
            ELSE FmtX(n \div 16) \o <<LowerDigits[(n % 16) + 1]>>

\* format(n, "x"): no padding
FmtNoPad(n) == FmtX(n)

\* format(n, "02x"): zero padded to a minimum width of two
Fmt02x(n) == IF n < 16 THEN <<"0">> \o FmtX(n) ELSE FmtX(n)

\* hex_to_rgb(h): the triple of channels, or Raised when int() raises
hex_to_rgb(h) ==
  LET r == Int16(Slice(h, 0, 2))
      g == Int16(Slice(h, 2, 4))
      b == Int16(Slice(h, 4, 6))
  IN  IF r = ValueError \/ g = ValueError \/ b = ValueError
        THEN Raised
        ELSE <<r, g, b>>

\* rgb_to_hex(c)
rgb_to_hex(c) == Fmt02x(c[1]) \o Fmt02x(c[2]) \o Fmt02x(c[3])

(***************************************************************************)
(* Python float arithmetic (IEEE-754 binary64, round to nearest, ties to   *)
(* even).  A natural number is a sequence of bits, least significant       *)
(* first; a non-negative double is [m |-> bits, e |-> exponent], worth     *)
(* m * 2^(-e).                                                             *)
(***************************************************************************)
MantBits == 53
\* fraction bits kept when a quotient is developed before it is rounded
DivBits == 64

RECURSIVE NatToBits(_)
NatToBits(n) == IF n = 0 THEN <<>> ELSE <<n % 2>> \o NatToBits(n \div 2)

RECURSIVE BitsToNat(_)
BitsToNat(a) == IF a = <<>> THEN 0 ELSE Head(a) + 2 * BitsToNat(Tail(a))

\* a without its leading (most significant) zeros
RECURSIVE Trim(_)
Trim(a) ==
  IF a = <<>> THEN <<>>
  ELSE IF a[Len(a)] = 0 THEN Trim(SubSeq(a, 1, Len(a) - 1)) ELSE a

Bit(a, k) == IF k <= Len(a) THEN a[k] ELSE 0

\* a + b + carry
RECURSIVE AddBits(_, _, _)
AddBits(a, b, carry) ==
  IF a = <<>> /\ b = <<>>
    THEN IF carry = 0 THEN <<>> ELSE <<carry>>
    ELSE LET x == Bit(a, 1) + Bit(b, 1) + carry
         IN  <<x % 2>> \o AddBits(Slice(a, 1, Len(a)), Slice(b, 1, Len(b)), x \div 2)

\* a - b - borrow, for a >= b + borrow
RECURSIVE SubBits(_, _, _)
SubBits(a, b, borrow) ==
  IF a = <<>> THEN <<>>
  ELSE LET x == Bit(a, 1) - Bit(b, 1) - borrow
       IN  <<x % 2>> \o SubBits(Tail(a), Slice(b, 1, Len(b)), IF x < 0 THEN 1 ELSE 0)

\* a * k + carry for a small natural k
RECURSIVE MulBits(_, _, _)
MulBits(a, k, carry) ==
  IF a = <<>> THEN NatToBits(carry)
  ELSE LET x == Head(a) * k + carry
       IN  <<x % 2>> \o MulBits(Tail(a), k, x \div 2)

\* a * 2^n
ShiftLeft(a, n) == [k \in 1..n |-> 0] \o a

\* the first n fraction bits (most significant first) of rem / den, followed
\* by a sticky bit telling whether anything is left
RECURSIVE FracBits(_, _, _)
FracBits(rem, den, n) ==
  IF n = 0 THEN <<IF rem = 0 THEN 0 ELSE 1>>
  ELSE LET r2 == 2 * rem
           q  == IF r2 >= den THEN 1 ELSE 0
       IN  <<q>> \o FracBits(r2 - q * den, den, n - 1)

Reverse(s) == [k \in 1..Len(s) |-> s[Len(s) + 1 - k]]

\* an exact value m * 2^(-e) rounded to a double
RoundDouble(m0, e) ==
  LET m == Trim(m0)
      k == Len(m) - MantBits
  IN  IF k <= 0 THEN [m |-> m, e |-> e]
      ELSE LET q      == SubSeq(m, k + 1, Len(m))
               guard  == m[k]
               sticky == \E j \in 1..(k - 1) : m[j] = 1
               up     == guard = 1 /\ (sticky \/ q[1] = 1)
           IN  [m |-> IF up THEN AddBits(q, <<>>, 1) ELSE q, e |-> e - k]

\* the double n / d for naturals 0 < n <= d (true division of two ints is
\* correctly rounded)
FloatDiv(n, d) ==
  LET ip == n \div d
      fr == FracBits(n % d, d, DivBits)
  IN  RoundDouble(Reverse(<<ip>> \o fr), DivBits + 1)

\* the double x * k for a double x >= 0 and a natural k
FloatMulNat(x, k) == RoundDouble(MulBits(x.m, k, 0), x.e)

\* the double n + x (sgn = 1) or n - x (sgn = -1), for a natural n and a
\* double x >= 0 with n - x >= 0
FloatAddNat(n, sgn, x) ==
  LET nb == ShiftLeft(NatToBits(n), x.e)
  IN  RoundDouble(IF sgn >= 0 THEN AddBits(nb, x.m, 0) ELSE SubBits(nb, x.m, 0), x.e)

\* a conversion that goes up to the next integer
FloatToIntUp(x) == BitsToNat(Slice(x.m, x.e, Len(x.m))) + 1

\* int(x) for a double x >= 0
FloatToInt(x) == BitsToNat(Slice(x.m, x.e, Len(x.m)))

\* t = i / steps of line 59, for every i of the loop
StepT == [i \in 1..steps |-> FloatDiv(i, steps)]

\* int(c0 + (c1 - c0) * t) of lines 60-62
Interp(c0, c1, i) ==
  LET d == c1 - c0
      p == FloatMulNat(StepT[i], IF d < 0 THEN -d ELSE d)
  IN  FloatToInt(FloatAddNat(c0, IF d < 0 THEN -1 ELSE 1, p))


(***************************************************************************)
(* QColor.fromHsv(h, 255, 255).name()[1:] of line 79.  Qt keeps 16-bit     *)
(* channels: with full saturation and value the rising channel is          *)
(* qRound(f * 65535) and the falling one qRound((1 - f) * 65535) for       *)
(* f = (h mod 60) / 60, and name() prints the high byte of each.           *)
(***************************************************************************)
Round16(k) == (2 * k * 65535 + 60) \div 120

HsvName(h) ==
  LET i == h \div 60
      k == h % 60
      V == 65535 \div 256
      T == Round16(k) \div 256
      Q == Round16(60 - k) \div 256
      c == CASE i = 0 -> <<V, T, 0>>
             [] i = 1 -> <<Q, V, 0>>
             [] i = 2 -> <<0, V, T>>
             [] i = 3 -> <<0, Q, V>>
             [] i = 4 -> <<T, 0, V>>
             [] OTHER -> <<V, 0, Q>>
  IN  rgb_to_hex(c)

(***************************************************************************)
(* Bounds of the model                                                     *)
(***************************************************************************)
\* rainbow sessions created in one run
MaxSessions == 2
\* frames one rainbow session writes before it only waits to be stopped
MaxFrames == 2

Threads == 1..MaxSessions
NoThread == 0

\* colours the colour dialog of pick_color returns (QColor values)
DialogColors == { <<0, 90, 0>> }
\* arguments given to set_color when it is called directly
ApiColors ==
  { PRESETS[n] : n \in DOMAIN PRESETS } \cup
  { <<"F","F","0","0","0","0">>, <<"0","0","5","a","0","0">>,
    <<"z","z","0","0","0","0">>, <<"f","f","0","0">>,
    <<"f","f","0","0","0","0","0">> }
ApiDurations == { 0, STATIC_DURATION_MS }

\* failed writes in one run
MaxFailures == 1
\* frames of the session that is followed around the hue circle
LongFrames == 362

Modes == { "Static Color", "Rainbow Mode" }
Buttons == DOMAIN PRESETS \cup { "Choose Custom Color" }

\* the channel values of the colours above, and Interp tabulated on them
Chans ==
  LET hexes == { PRESETS[n] : n \in DOMAIN PRESETS } \cup ApiColors
      rgbs  == { hex_to_rgb(h) : h \in hexes } \cup DialogColors
  IN  UNION { { c[k] : k \in 1..Len(c) } : c \in rgbs }

InterpTable == [ c0 \in Chans, c1 \in Chans, i \in 1..steps |-> Interp(c0, c1, i) ]

\* the loop running over range(0, steps) instead of range(1, steps + 1)
StepColorFromZero(from, to, i) ==
  IF i = 1 THEN rgb_to_hex(from)
  ELSE rgb_to_hex(<< InterpTable[from[1], to[1], i - 1],
                     InterpTable[from[2], to[2], i - 1],
                     InterpTable[from[3], to[3], i - 1] >>)

\* the colour written at step i of the loop of set_color (lines 59-63)
StepColor(from, to, i) ==
  rgb_to_hex(<< InterpTable[from[1], to[1], i], InterpTable[from[2], to[2], i],
                InterpTable[from[3], to[3], i] >>)

\* exactly six hexadecimal digits
WellFormed(h) == Len(h) = 6 /\ \A k \in 1..6 : DigitVal(h[k]) >= 0

(***************************************************************************)
(* State                                                                   *)
(***************************************************************************)
VARIABLES
  last_color,   \* the module global _last_color
  device,       \* what the zone file holds: the last write that succeeded
  rain_thread,  \* RGBController.rain_thread: NoThread or a thread
  th,           \* the RainbowThread objects: position, hue, stop_event
  nthreads,     \* RainbowThread objects created so far
  mainpc,       \* where the main (GUI) thread is
  cont,         \* the handler blocked in stop_rainbow
  options,      \* the buttons in options_layout
  lastMode,     \* the "lastMode" value of QSettings
  quit,         \* QApplication.quit() has been called
  sc,           \* the frame of the running or last set_color call (the
                \* frame of a call that returned is dropped by the next
                \* handler that is not a colour request)
  stopped,      \* threads whose stop() has returned
  nfail,        \* writes that have failed so far
  lastw,        \* the latest write: who issued it, what, and its outcome
  harness,      \* who drives the program: the GUI, direct calls, the codec
  cd,           \* a colour going through rgb_to_hex and hex_to_rgb
  lerp          \* one channel going through the steps of an interpolation

vars == << last_color, device, rain_thread, th, nthreads, mainpc, cont,
           options, lastMode, quit, sc, stopped, nfail, lastw, harness, cd, lerp >>

guiVars == << rain_thread, th, nthreads, cont, options, lastMode, quit, stopped >>

NoCall ==
  [ state |-> "none", col |-> <<>>, dur |-> 0, prev |-> <<>>, i |-> 0,
    from |-> <<>>, to |-> <<>>, writes |-> 0, fails |-> 0, lastw |-> <<>>,
    lastok |-> TRUE ]

NoWrite == [ by |-> "none", col |-> <<>>, ok |-> TRUE ]

\* n counts the frames written, arg is the hue handed to fromHsv for the
\* latest of them, late counts the frames written after stop_event was set
NewThread ==
  [ pc |-> "unborn", hue |-> 0, stop_event |-> FALSE, n |-> 0, arg |-> -1,
    late |-> 0 ]

NoCodec == [ rgb |-> <<0, 0, 0>>, hex |-> <<>>, back |-> <<>>, pc |-> "off" ]

NoLerp == [ c0 |-> 0, c1 |-> 0, i |-> 0, v |-> 0, prev |-> 0 ]

\* a thread whose run() has begun and not returned
Alive(t) == th[t].pc \in { "test", "write", "wait" }

(***************************************************************************)
(* sudo_write (lines 46-48): tee replaces the content of the zone file     *)
(* when it succeeds; its exit status is not looked at.                     *)
(***************************************************************************)
sudo_write(col_hex, ok) == IF ok THEN col_hex ELSE device

\* the outcomes a write can have
Outcomes == IF nfail < MaxFailures THEN BOOLEAN ELSE { TRUE }
Failed(ok) == IF ok THEN nfail ELSE nfail + 1

(***************************************************************************)
(* set_color (lines 51-67)                                                 *)
(***************************************************************************)
\* the test of line 53 comparing the strings as they are
InterpolatesCaseSensitive(col_hex, duration_ms) ==
  /\ duration_ms # 0
  /\ last_color # None
  /\ last_color # col_hex

\* the test of line 53
Interpolates(col_hex, duration_ms) ==
  /\ duration_ms # 0
  /\ last_color # None
  /\ Lower(last_color) # Lower(col_hex)

\* lines 52-57: the call, up to the first write
set_color(col_hex, duration_ms) ==
  LET frame == [ NoCall EXCEPT !.col = col_hex, !.dur = duration_ms,
                               !.prev = last_color ]
  IN  IF Interpolates(col_hex, duration_ms)
        THEN LET c0 == hex_to_rgb(last_color)
                 c1 == hex_to_rgb(col_hex)
             IN  IF c0 = Raised \/ c1 = Raised
                   THEN /\ sc' = [ frame EXCEPT !.state = "raised" ]
                        /\ mainpc' = "idle"
                   ELSE /\ sc' = [ frame EXCEPT !.state = "running", !.i = 1,
                                                !.from = c0, !.to = c1 ]
                        /\ mainpc' = "loop"
        ELSE /\ sc' = [ frame EXCEPT !.state = "running" ]
             /\ mainpc' = "direct"

\* the loop recording the colour it wrote last instead of col_hex
LoopWriteRecordsWritten ==
  /\ mainpc = "loop"
  /\ \E ok \in Outcomes :
       LET col == StepColor(sc.from, sc.to, sc.i)
           last == sc.i = steps
       IN  /\ device' = sudo_write(col, ok)
           /\ nfail' = Failed(ok)
           /\ lastw' = [ by |-> "set_color", col |-> col, ok |-> ok ]
           /\ sc' = [ sc EXCEPT !.i = IF last THEN sc.i ELSE sc.i + 1,
                                !.writes = sc.writes + 1,
                                !.fails = IF ok THEN sc.fails ELSE sc.fails + 1,
                                !.lastw = col, !.lastok = ok,
                                !.state = IF last THEN "returned" ELSE "running" ]
           /\ last_color' = IF last THEN col ELSE last_color
           /\ mainpc' = IF last THEN "idle" ELSE "loop"
  /\ UNCHANGED << guiVars, harness, cd, lerp >>

\* the loop given up at the first write that fails
LoopWriteAbortsOnFailure ==
  /\ mainpc = "loop"
  /\ \E ok \in Outcomes :
       LET col == StepColor(sc.from, sc.to, sc.i)
           last == sc.i = steps \/ ~ok
       IN  /\ device' = sudo_write(col, ok)
           /\ nfail' = Failed(ok)
           /\ lastw' = [ by |-> "set_color", col |-> col, ok |-> ok ]
           /\ sc' = [ sc EXCEPT !.i = IF last THEN sc.i ELSE sc.i + 1,
                                !.writes = sc.writes + 1,
                                !.fails = IF ok THEN sc.fails ELSE sc.fails + 1,
                                !.lastw = col, !.lastok = ok,
                                !.state = IF ~ok THEN "raised"
                                          ELSE IF last THEN "returned" ELSE "running" ]
           /\ last_color' = IF last /\ ok THEN sc.col ELSE last_color
           /\ mainpc' = IF last THEN "idle" ELSE "loop"
  /\ UNCHANGED << guiVars, harness, cd, lerp >>

\* lines 58-64 for one i, and line 67 after the last
LoopWrite ==
  /\ mainpc = "loop"
  /\ \E ok \in Outcomes :
       LET col == StepColor(sc.from, sc.to, sc.i)
           last == sc.i = steps
       IN  /\ device' = sudo_write(col, ok)
           /\ nfail' = Failed(ok)
           /\ lastw' = [ by |-> "set_color", col |-> col, ok |-> ok ]
           /\ sc' = [ sc EXCEPT !.i = IF last THEN sc.i ELSE sc.i + 1,
                                !.writes = sc.writes + 1,
                                !.fails = IF ok THEN sc.fails ELSE sc.fails + 1,
                                !.lastw = col, !.lastok = ok,
                                !.state = IF last THEN "returned" ELSE "running" ]
           /\ last_color' = IF last THEN sc.col ELSE last_color
           /\ mainpc' = IF last THEN "idle" ELSE "loop"
  /\ UNCHANGED << guiVars, harness, cd, lerp >>

\* lines 66-67
DirectWrite ==
  /\ mainpc = "direct"
  /\ \E ok \in Outcomes :
       /\ device' = sudo_write(sc.col, ok)
       /\ nfail' = Failed(ok)
       /\ lastw' = [ by |-> "set_color", col |-> sc.col, ok |-> ok ]
       /\ sc' = [ sc EXCEPT !.writes = sc.writes + 1, !.lastw = sc.col,
                            !.fails = IF ok THEN sc.fails ELSE sc.fails + 1,
                            !.lastok = ok, !.state = "returned" ]
  /\ last_color' = sc.col
  /\ mainpc' = "idle"
  /\ UNCHANGED << guiVars, harness, cd, lerp >>

(***************************************************************************)
(* RainbowThread (lines 70-86)                                             *)
(***************************************************************************)
\* the frames a session writes before it only waits to be stopped
FrameCap == IF harness = "rainbow" THEN LongFrames ELSE MaxFrames

\* the frames of t written after its stop_event was set, with the frame
\* being written; they are counted in the runs that follow one session
Late(t) ==
  IF harness = "rainbow" /\ th[t].stop_event THEN th[t].late + 1 ELSE th[t].late

\* a loop that never looks at stop_event (while True)
RunTestIgnoresStop(t) ==
  /\ th[t].pc = "test"
  /\ th[t].hue < FrameCap
  /\ th' = [ th EXCEPT ![t].pc = "write" ]
  /\ UNCHANGED << last_color, device, rain_thread, nthreads, mainpc, cont,
                  options, lastMode, quit, sc, stopped, nfail, lastw, harness, cd, lerp >>

\* line 78: the test of the while loop.  A session that has written
\* FrameCap frames stays in its wait until it is stopped.
RunTest(t) ==
  /\ th[t].pc = "test"
  /\ th[t].stop_event \/ th[t].hue < FrameCap
  /\ th' = [ th EXCEPT ![t].pc = IF th[t].stop_event THEN "finished" ELSE "write" ]
  /\ UNCHANGED << last_color, device, rain_thread, nthreads, mainpc, cont,
                  options, lastMode, quit, sc, stopped, nfail, lastw, harness, cd, lerp >>

\* QColor.fromHsv(h, 255, 255).name()[1:] for any h >= 0: out of 0..359
\* fromHsv returns an invalid colour, whose name is #000000
FromHsvName(h) == IF h < 360 THEN HsvName(h) ELSE rgb_to_hex(<<0, 0, 0>>)

\* a frame computed from self.hue without the modulo
RunWriteNoModulo(t) ==
  /\ th[t].pc = "write"
  /\ \E ok \in Outcomes :
       /\ device' = sudo_write(FromHsvName(th[t].hue), ok)
       /\ nfail' = Failed(ok)
       /\ lastw' = [ by |-> "rainbow", col |-> FromHsvName(th[t].hue), ok |-> ok ]
  /\ th' = [ th EXCEPT ![t].pc = "wait", ![t].hue = th[t].hue + 1,
                       ![t].n = th[t].n + 1, ![t].arg = th[t].hue,
                       ![t].late = Late(t) ]
  /\ UNCHANGED << last_color, rain_thread, nthreads, mainpc, cont,
                  options, lastMode, quit, sc, stopped, harness, cd, lerp >>

\* a session that ends when a frame cannot be written
RunWriteEndsOnFailure(t) ==
  /\ th[t].pc = "write"
  /\ \E ok \in Outcomes :
       /\ device' = sudo_write(FromHsvName(th[t].hue % 360), ok)
       /\ nfail' = Failed(ok)
       /\ lastw' = [ by |-> "rainbow", col |-> FromHsvName(th[t].hue % 360),
                     ok |-> ok ]
       /\ th' = [ th EXCEPT ![t].pc = IF ok THEN "wait" ELSE "finished",
                            ![t].hue = th[t].hue + 1,
                            ![t].n = th[t].n + 1, ![t].arg = th[t].hue % 360,
                            ![t].late = Late(t) ]
  /\ UNCHANGED << last_color, rain_thread, nthreads, mainpc, cont,
                  options, lastMode, quit, sc, stopped, harness, cd, lerp >>

\* lines 79-81: one frame
RunWrite(t) ==
  /\ th[t].pc = "write"
  /\ \E ok \in Outcomes :
       /\ device' = sudo_write(FromHsvName(th[t].hue % 360), ok)
       /\ nfail' = Failed(ok)
       /\ lastw' = [ by |-> "rainbow", col |-> FromHsvName(th[t].hue % 360),
                     ok |-> ok ]
  /\ th' = [ th EXCEPT ![t].pc = "wait", ![t].hue = th[t].hue + 1,
                       ![t].n = th[t].n + 1, ![t].arg = th[t].hue % 360,
                       ![t].late = Late(t) ]
  /\ UNCHANGED << last_color, rain_thread, nthreads, mainpc, cont,
                  options, lastMode, quit, sc, stopped, harness, cd, lerp >>

\* a loop that tests stop_event before its first frame only
RunWaitLoopsOn(t) ==
  /\ th[t].pc = "wait"
  /\ th' = [ th EXCEPT ![t].pc = "write" ]
  /\ UNCHANGED << last_color, device, rain_thread, nthreads, mainpc, cont,
                  options, lastMode, quit, sc, stopped, nfail, lastw, harness, cd, lerp >>

\* line 82: stop_event.wait(delay_s) returns, on the event or on the timeout
RunWait(t) ==
  /\ th[t].pc = "wait"
  /\ th' = [ th EXCEPT ![t].pc = "test" ]
  /\ UNCHANGED << last_color, device, rain_thread, nthreads, mainpc, cont,
                  options, lastMode, quit, sc, stopped, nfail, lastw, harness, cd, lerp >>

\* wait() that does not wait for run() to return
WaitReturnsAtOnce(t) == TRUE

\* line 86: QThread.wait() returns once run() has returned
WaitReturns(t) == th[t].pc = "finished"

(***************************************************************************)
(* RGBController (lines 89-177).  The handlers run on the main thread, one *)
(* at a time; a handler blocks only in stop_rainbow (QThread.wait).        *)
(***************************************************************************)
\* the runs in which the handlers of RGBController are called
GuiHarness == { "gui", "rainbow" }

\* a session that is started and not kept in rain_thread
start_rainbow_unrecorded(delay_ms) ==
  /\ nthreads' = nthreads + 1
  /\ th' = [ th EXCEPT ![nthreads + 1] = [ NewThread EXCEPT !.pc = "test" ] ]
  /\ rain_thread' = NoThread

\* lines 152-155 with rain_thread empty (stop_rainbow of line 153 does
\* nothing): a RainbowThread is created and started
start_rainbow(delay_ms) ==
  /\ nthreads' = nthreads + 1
  /\ th' = [ th EXCEPT ![nthreads + 1] = [ NewThread EXCEPT !.pc = "test" ] ]
  /\ rain_thread' = nthreads + 1

\* on_mode without clear_opts: the buttons of the static mode stay
OnModeBodyKeepsButtons(mode) ==
  /\ lastMode' = mode
  /\ IF mode = "Static Color"
       THEN /\ options' = Buttons
            /\ UNCHANGED << th, nthreads >>
            /\ rain_thread' = NoThread
       ELSE /\ options' = options
            /\ start_rainbow(RAIN_DELAY_MS)
  /\ mainpc' = "idle"
  /\ UNCHANGED << quit >>

\* lines 131-144: on_mode after its stop_rainbow
OnModeBody(mode) ==
  /\ lastMode' = mode
  /\ IF mode = "Static Color"
       THEN /\ options' = Buttons
            /\ UNCHANGED << th, nthreads >>
            /\ rain_thread' = NoThread      \* line 160
       ELSE /\ options' = {}
            /\ start_rainbow(RAIN_DELAY_MS)
  /\ mainpc' = "idle"
  /\ UNCHANGED << quit >>

\* lines 165-166: exit_app after its stop_rainbow
ExitBody ==
  /\ quit' = TRUE
  /\ mainpc' = "quit"
  /\ rain_thread' = NoThread
  /\ UNCHANGED << th, nthreads, options, lastMode >>

Body(handler) == IF handler = "exit_app" THEN ExitBody ELSE OnModeBody(handler)

\* a handler that goes on without stopping the session
stop_rainbow_skipped(handler) ==
  /\ Body(handler)
  /\ UNCHANGED << cont, stopped >>

\* lines 157-160 up to wait(): a handler enters stop_rainbow.  With no
\* session it goes on at once; otherwise line 85 sets the event and the
\* handler blocks in line 86.
stop_rainbow(handler) ==
  IF rain_thread = NoThread
    THEN /\ Body(handler)
         /\ UNCHANGED << cont, stopped >>
    ELSE /\ th' = [ th EXCEPT ![rain_thread].stop_event = TRUE ]
         /\ mainpc' = "join"
         /\ cont' = handler
         /\ UNCHANGED << rain_thread, nthreads, options, lastMode, quit, stopped >>

\* lines 86 and 160: wait() returns, rain_thread is cleared and the handler
\* goes on
StopReturns ==
  /\ mainpc = "join"
  /\ WaitReturns(rain_thread)
  /\ stopped' = stopped \cup { rain_thread }
  /\ Body(cont)
  /\ cont' = "none"
  /\ UNCHANGED << last_color, device, sc, nfail, lastw, harness, cd, lerp >>

\* lines 129-144
on_mode(mode) ==
  /\ harness \in GuiHarness
  /\ mainpc = "idle"
  /\ mode = "Rainbow Mode" => nthreads < MaxSessions
  /\ stop_rainbow(mode)
  /\ sc' = NoCall
  /\ UNCHANGED << last_color, device, nfail, lastw, harness, cd, lerp >>

\* lines 168-172, called by the constructor
load_settings ==
  /\ harness \in GuiHarness
  /\ mainpc = "init"
  /\ IF lastMode \in Modes
       THEN stop_rainbow(lastMode)
       ELSE /\ mainpc' = "idle"
            /\ UNCHANGED guiVars
  /\ UNCHANGED << last_color, device, sc, nfail, lastw, harness, cd, lerp >>

\* line 137: a preset button is clicked
preset_clicked(name) ==
  /\ harness = "gui"
  /\ mainpc = "idle"
  /\ name \in options
  /\ set_color(PRESETS[name], STATIC_DURATION_MS)
  /\ UNCHANGED << last_color, device, guiVars, nfail, lastw, harness, cd, lerp >>

\* lines 146-150: the dialog returns a colour, or an invalid one when it is
\* cancelled
pick_color ==
  /\ harness = "gui"
  /\ mainpc = "idle"
  /\ "Choose Custom Color" \in options
  /\ \/ \E c \in DialogColors : set_color(rgb_to_hex(c), STATIC_DURATION_MS)
     \/ UNCHANGED << sc, mainpc >>
  /\ UNCHANGED << last_color, device, guiVars, nfail, lastw, harness, cd, lerp >>

\* an exit that quits without stop_rainbow
exit_app_without_stop ==
  /\ harness \in GuiHarness
  /\ mainpc = "idle"
  /\ quit' = TRUE
  /\ mainpc' = "quit"
  /\ sc' = NoCall
  /\ UNCHANGED << last_color, device, rain_thread, th, nthreads, cont, options,
                  lastMode, stopped, nfail, lastw, harness, cd, lerp >>

\* lines 162-166
exit_app ==
  /\ harness \in GuiHarness
  /\ mainpc = "idle"
  /\ stop_rainbow("exit_app")
  /\ sc' = NoCall
  /\ UNCHANGED << last_color, device, nfail, lastw, harness, cd, lerp >>

\* lines 174-177
closeEvent == exit_app

(***************************************************************************)
(* The program as it is wired                                              *)
(***************************************************************************)
Init ==
  /\ last_color = None
  /\ device = <<>>
  /\ rain_thread = NoThread
  /\ th = [ t \in Threads |-> NewThread ]
  /\ nthreads = 0
  /\ mainpc = "init"
  /\ cont = "none"
  /\ options = {}
  /\ lastMode \in Modes \cup { "" }
  /\ quit = FALSE
  /\ sc = NoCall
  /\ stopped = {}
  /\ nfail = 0
  /\ lastw = NoWrite
  /\ harness = "gui"
  /\ cd = NoCodec
  /\ lerp = NoLerp

Next ==
  \/ load_settings
  \/ \E mode \in Modes : on_mode(mode)
  \/ \E name \in DOMAIN PRESETS : preset_clicked(name)
  \/ pick_color
  \/ exit_app
  \/ closeEvent
  \/ StopReturns
  \/ LoopWrite
  \/ DirectWrite
  \/ \E t \in Threads : RunTest(t)
  \/ \E t \in Threads : RunWrite(t)
  \/ \E t \in Threads : RunWait(t)

Spec == Init /\ [][Next]_vars

(***************************************************************************)
(* One rainbow session followed around the hue circle: the program starts  *)
(* in "Rainbow Mode", and the session runs until the mode is changed or    *)
(* the application exits.                                                  *)
(***************************************************************************)
InitRainbow ==
  /\ last_color = None
  /\ device = <<>>
  /\ rain_thread = NoThread
  /\ th = [ t \in Threads |-> NewThread ]
  /\ nthreads = 0
  /\ mainpc = "init"
  /\ cont = "none"
  /\ options = {}
  /\ lastMode = "Rainbow Mode"
  /\ quit = FALSE
  /\ sc = NoCall
  /\ stopped = {}
  /\ nfail = 0
  /\ lastw = NoWrite
  /\ harness = "rainbow"
  /\ cd = NoCodec
  /\ lerp = NoLerp

NextRainbow ==
  \/ load_settings
  \/ on_mode("Static Color")
  \/ exit_app
  \/ closeEvent
  \/ StopReturns
  \/ \E t \in Threads : RunTest(t)
  \/ \E t \in Threads : RunWrite(t)
  \/ \E t \in Threads : RunWait(t)

SpecRainbow == InitRainbow /\ [][NextRainbow]_vars

\* The thread of a session is scheduled and each of its writes returns; the
\* main thread goes on when wait() can return.
FairRainbow ==
  /\ \A t \in Threads :
       WF_vars(RunTest(t)) /\ WF_vars(RunWrite(t)) /\ WF_vars(RunWait(t))
  /\ WF_vars(StopReturns)

SpecRainbowFair == SpecRainbow /\ FairRainbow

(***************************************************************************)
(* set_color called directly, with any of ApiColors and ApiDurations       *)
(* (duration_ms omitted, None or 0 all fail the test of line 53: 0 stands  *)
(* for the three)                                                          *)
(***************************************************************************)
call_set_color(col_hex, duration_ms) ==
  /\ harness = "engine"
  /\ mainpc = "idle"
  /\ set_color(col_hex, duration_ms)
  /\ UNCHANGED << last_color, device, guiVars, nfail, lastw, harness, cd, lerp >>

InitEngine ==
  /\ last_color = None
  /\ device = <<>>
  /\ rain_thread = NoThread
  /\ th = [ t \in Threads |-> NewThread ]
  /\ nthreads = 0
  /\ mainpc = "idle"
  /\ cont = "none"
  /\ options = {}
  /\ lastMode = ""
  /\ quit = FALSE
  /\ sc = NoCall
  /\ stopped = {}
  /\ nfail = 0
  /\ lastw = NoWrite
  /\ harness = "engine"
  /\ cd = NoCodec
  /\ lerp = NoLerp

NextEngine ==
  \/ \E c \in ApiColors, d \in ApiDurations : call_set_color(c, d)
  \/ LoopWrite
  \/ DirectWrite

SpecEngine == InitEngine /\ [][NextEngine]_vars

(***************************************************************************)
(* rgb_to_hex followed by hex_to_rgb, on colours whose channels take every *)
(* value of 0..ChanMax in each position                                    *)
(***************************************************************************)
EdgeChans == { 0, 9, 10, 15, 16, ChanMax }

CodecColors ==
  { <<x, y, z>> : x \in 0..ChanMax, y \in EdgeChans, z \in EdgeChans } \cup
  { <<y, x, z>> : x \in 0..ChanMax, y \in EdgeChans, z \in EdgeChans } \cup
  { <<y, z, x>> : x \in 0..ChanMax, y \in EdgeChans, z \in EdgeChans }

Encode ==
  /\ harness = "codec"
  /\ cd.pc = "encode"
  /\ cd' = [ cd EXCEPT !.hex = rgb_to_hex(cd.rgb), !.pc = "decode" ]
  /\ UNCHANGED << last_color, device, guiVars, mainpc, sc, nfail, lastw, harness,
                  lerp >>

Decode ==
  /\ harness = "codec"
  /\ cd.pc = "decode"
  /\ cd' = [ cd EXCEPT !.back = hex_to_rgb(cd.hex), !.pc = "done" ]
  /\ UNCHANGED << last_color, device, guiVars, mainpc, sc, nfail, lastw, harness,
                  lerp >>

InitCodec ==
  /\ last_color = None
  /\ device = <<>>
  /\ rain_thread = NoThread
  /\ th = [ t \in Threads |-> NewThread ]
  /\ nthreads = 0
  /\ mainpc = "idle"
  /\ cont = "none"
  /\ options = {}
  /\ lastMode = ""
  /\ quit = FALSE
  /\ sc = NoCall
  /\ stopped = {}
  /\ nfail = 0
  /\ lastw = NoWrite
  /\ harness = "codec"
  /\ cd \in { [ NoCodec EXCEPT !.rgb = c, !.pc = "encode" ] : c \in CodecColors }
  /\ lerp = NoLerp

NextCodec == Encode \/ Decode

SpecCodec == InitCodec /\ [][NextCodec]_vars

(***************************************************************************)
(* One channel of an interpolated transition (lines 58-63), from every     *)
(* start value of 0..ChanMax to each of InterpTargets                      *)
(***************************************************************************)
InterpTargets == { 0, 1, 2, 9, 10, 19, 20, 90, 100, 127, 128, 170, 180, 200, 254, ChanMax }

\* one pass of the loop for the channel
InterpStep ==
  /\ harness = "interp"
  /\ lerp.i < steps
  /\ lerp' = [ lerp EXCEPT !.i = lerp.i + 1, !.prev = lerp.v,
                           !.v = Interp(lerp.c0, lerp.c1, lerp.i + 1) ]
  /\ UNCHANGED << last_color, device, guiVars, mainpc, sc, nfail, lastw, harness,
                  cd >>

InitInterp ==
  /\ last_color = None
  /\ device = <<>>
  /\ rain_thread = NoThread
  /\ th = [ t \in Threads |-> NewThread ]
  /\ nthreads = 0
  /\ mainpc = "idle"
  /\ cont = "none"
  /\ options = {}
  /\ lastMode = ""
  /\ quit = FALSE
  /\ sc = NoCall
  /\ stopped = {}
  /\ nfail = 0
  /\ lastw = NoWrite
  /\ harness = "interp"
  /\ cd = NoCodec
  /\ lerp \in { [ c0 |-> a, c1 |-> b, i |-> 0, v |-> a, prev |-> a ] :
                 a \in 0..ChanMax, b \in InterpTargets }

NextInterp == InterpStep

SpecInterp == InitInterp /\ [][NextInterp]_vars

(***************************************************************************)
(* Properties                                                              *)
(***************************************************************************)
\* set_color has been entered and has not returned
InTransition == mainpc \in { "direct", "loop" }

AliveThreads == { t \in Threads : Alive(t) }

\* C1: mutual exclusion of writers.  While a call of set_color is between
\* its entry and its last write, no rainbow session is running: every
\* static-colour request finds the session stopped before its first write.
C1_MutualExclusion == InTransition => AliveThreads = {}

\* a transition is writing after a rainbow session has written and ended
C1_Witness ==
  /\ mainpc = "loop"
  /\ sc.writes > 0
  /\ \E t \in Threads : th[t].pc = "finished" /\ th[t].hue > 0

\* C2: stop synchronicity.  Once stop() has returned for a session, its
\* loop has exited, and the session writes nothing from then on (hue counts
\* the writes of a session).
C2_StopSynchronous ==
  /\ [](\A t \in stopped : th[t].pc = "finished")
  /\ [][\A t \in stopped : th'[t] = th[t]]_vars

\* stop() has returned for a session that was stopped after it had written
\* a frame and while it was about to write the next
C2_Witness ==
  \E t \in stopped : th[t].hue > 0 /\ th[t].hue < MaxFrames /\ lastw.by = "rainbow"

\* C3: continuity across the mode switch.  When a call of set_color starts
\* and the latest write was a frame X of a rainbow session, the transition
\* starts from X.
C3_Continuity ==
  (sc.state = "running" /\ sc.writes = 0 /\ lastw.by = "rainbow" /\ lastw.ok)
    => sc.prev = lastw.col

\* C4: at most one rainbow session is alive.
C4_OneSession == Cardinality(AliveThreads) <= 1

\* a second session runs after the first one was stopped and joined
C4_Witness ==
  /\ nthreads >= 2
  /\ Alive(nthreads)
  /\ 1 \in stopped
  /\ th[1].hue > 0

\* C5: write count of a transition.  A call of set_color on a well-formed
\* target that has returned has issued exactly steps writes when a last
\* colour was recorded, the duration is positive and the target differs
\* from the last colour without regard to case, and otherwise exactly one
\* write, of the target itself.
C5_WriteCount ==
  (sc.state = "returned" /\ WellFormed(sc.col)
     /\ (sc.prev = None \/ WellFormed(sc.prev)))
    => IF sc.prev # None /\ sc.dur > 0 /\ Lower(sc.prev) # Lower(sc.col)
         THEN sc.writes = steps
         ELSE sc.writes = 1 /\ sc.lastw = sc.col

\* an interpolated transition between two well-formed colours has returned
C5_Witness ==
  /\ sc.state = "returned"
  /\ sc.writes = steps
  /\ WellFormed(sc.col)
  /\ WellFormed(sc.prev)

\* C6: interpolation endpoint.  The final write of a transition to a
\* well-formed target carries the target on all three channels.
C6_Endpoint ==
  (sc.state = "returned" /\ WellFormed(sc.col))
    => hex_to_rgb(sc.lastw) = hex_to_rgb(sc.col)

\* an interpolated transition that moved all three channels has returned
C6_Witness ==
  /\ sc.state = "returned"
  /\ sc.writes = steps
  /\ WellFormed(sc.col)
  /\ \A k \in 1..3 : sc.from[k] # sc.to[k]

\* C7: the recorded last colour is the colour of the most recent successful
\* write, absent before the first (read on calls with well-formed colours).
C7_RecordedIsLastSuccess ==
  (sc.state # "none" => WellFormed(sc.col)) => last_color = device

\* C8: a call of set_color on a well-formed colour whose final (or single)
\* write failed does not return normally: the failure is reported to the
\* caller.
C8_FinalFailureReported ==
  (sc.state = "returned" /\ WellFormed(sc.col)) => sc.lastok

\* C9: a call of set_color on a malformed colour string issues no write and
\* leaves the recorded last colour as it was.
C9_MalformedRejected ==
  (sc.state # "none" /\ ~WellFormed(sc.col))
    => (sc.writes = 0 /\ last_color = sc.prev)

\* C10: hex round trip.  rgb_to_hex yields six lowercase hexadecimal
\* digits, and hex_to_rgb gives back the colour they were made from.
C10_RoundTrip ==
  /\ cd.pc \in { "decode", "done" } =>
        /\ Len(cd.hex) = 6
        /\ \A k \in 1..Len(cd.hex) : \E j \in 1..16 : cd.hex[k] = LowerDigits[j]
  /\ cd.pc = "done" => cd.back = cd.rgb

\* a colour with a channel below 16 and channels printed with letters has
\* gone through both conversions
C10_Witness == cd.pc = "done" /\ cd.rgb = << 171, 9, 255 >>

\* the absolute value
Abs(x) == IF x < 0 THEN -x ELSE x

\* C11: interpolation formula.  The i-th write of an interpolated
\* transition carries, on each channel, the linear interpolant
\* start + (end - start) * i / steps rounded to a nearest integer.
C11_RoundedInterpolant ==
  (sc.from # <<>> /\ sc.writes >= 1)
    => \A k \in 1..3 :
         Abs(steps * hex_to_rgb(sc.lastw)[k]
               - (steps * sc.from[k] + (sc.to[k] - sc.from[k]) * sc.writes))
           * 2 <= steps

\* C12: after set_color has returned, on either path, the recorded last
\* colour is the target string itself, and the next call starts from it.
C12_RecordsTarget ==
  /\ [](sc.state = "returned" => last_color = sc.col)
  /\ [][(sc.state = "returned" /\ sc'.writes = 0 /\ sc'.state # "returned")
          => sc'.prev = sc.col]_vars

\* an interpolated transition has returned whose last written string is not
\* the target string (the target is written in uppercase)
C12_Witness ==
  /\ sc.state = "returned"
  /\ sc.writes = steps
  /\ sc.lastw # sc.col
  /\ last_color = sc.col

\* C15: a failed intermediate write does not abort the transition.  Once a
\* write of the loop has failed, the loop still goes through its steps in
\* order, and when the call has returned all steps writes have been
\* attempted and the target is recorded.
C15_FailureDoesNotAbort ==
  (sc.from # <<>> /\ sc.fails > 0)
    => /\ sc.state \in { "running", "returned" }
       /\ sc.state = "running" => (mainpc = "loop" /\ sc.writes = sc.i - 1)
       /\ sc.state = "returned" => (sc.writes = steps /\ last_color = sc.col)

\* an interpolated transition has returned after one of its intermediate
\* writes failed and its final write succeeded
C15_Witness ==
  /\ sc.from # <<>>
  /\ sc.state = "returned"
  /\ sc.fails > 0
  /\ sc.lastok
  /\ sc.writes = steps

\* C13: a stop() called on a running session returns: whenever a handler
\* is blocked in stop() on session t, later t has finished, stop() has
\* returned and rain_thread no longer holds t.  (Under FairRainbow.)
C13_StopCompletes ==
  \A t \in Threads :
    (mainpc = "join" /\ rain_thread = t)
      ~> (t \in stopped /\ ~Alive(t) /\ rain_thread # t /\ mainpc # "join")

\* a session stopped before it wrote its first frame
C13_Witness ==
  \E t \in stopped : th[t].n = 0 /\ th[t].pc = "finished" /\ rain_thread = NoThread

\* the channels of a colour name
MaxChan(h) == LET c == hex_to_rgb(h)
              IN  CHOOSE x \in { c[1], c[2], c[3] } : \A k \in 1..3 : c[k] <= x
MinChan(h) == LET c == hex_to_rgb(h)
              IN  CHOOSE x \in { c[1], c[2], c[3] } : \A k \in 1..3 : c[k] >= x

\* C14: the hue counter of a session starts at 0 and equals the number of
\* frames written; a step that changes it adds one and writes one frame;
\* the k-th frame (k from 0) was computed from hue k mod 360 and is the
\* colour of that hue with full saturation and value.
C14_HueSequence ==
  /\ [](\A t \in Threads :
          /\ th[t].hue = th[t].n
          /\ th[t].pc = "unborn" => th[t].hue = 0
          /\ th[t].n > 0 => th[t].arg = (th[t].n - 1) % 360
          /\ (th[t].n > 0 /\ rain_thread = t /\ lastw.by = "rainbow")
               => /\ lastw.col = HsvName((th[t].n - 1) % 360)
                  /\ MaxChan(lastw.col) = ChanMax
                  /\ MinChan(lastw.col) = 0)
  /\ [][\A t \in Threads :
          th'[t].hue # th[t].hue
            => /\ th'[t].hue = th[t].hue + 1
               /\ th'[t].n = th[t].n + 1
               /\ lastw'.col = HsvName(th[t].hue % 360)]_vars

\* the frame after hue 359 is the frame of hue 0
C14_Witness ==
  \E t \in Threads :
    /\ th[t].n = 361 /\ th[t].arg = 0 /\ th[t].pc = "wait"
    /\ lastw.col = HsvName(0)

\* C16: a frame whose write failed is skipped: the session stays alive, its
\* hue counter advances by one and its next frame is the one of the next
\* hue; a session that has finished is one whose stop_event was set.
C16_FailedFrameSkipped ==
  /\ [](\A t \in Threads : th[t].pc = "finished" => th[t].stop_event)
  /\ [][\A t \in Threads :
          (th[t].pc = "write" /\ th'[t] # th[t] /\ nfail' > nfail)
            => /\ th'[t].pc = "wait"
               /\ th'[t].hue = th[t].hue + 1
               /\ device' = device]_vars
  /\ [][\A t \in Threads :
          (th'[t].n = th[t].n + 1 /\ th[t].n > 0)
            => th'[t].arg = (th[t].arg + 1) % 360]_vars

\* a frame failed and the session wrote the next one
C16_Witness ==
  \E t \in Threads :
    /\ Alive(t) /\ th[t].n >= 2 /\ nfail > 0
    /\ lastw.by = "rainbow" /\ lastw.ok /\ device = HsvName(th[t].arg)

\* C17: in an interpolated transition the value written for a channel lies
\* between the start and the target value, so in 0..ChanMax, and from one
\* step to the next it never moves away from the target.
C17_BetweenAndMonotone ==
  (harness = "interp" /\ lerp.i >= 1)
    => /\ lerp.v \in 0..ChanMax
       /\ IF lerp.c0 <= lerp.c1
            THEN lerp.c0 <= lerp.prev /\ lerp.prev <= lerp.v /\ lerp.v <= lerp.c1
            ELSE lerp.c0 >= lerp.prev /\ lerp.prev >= lerp.v /\ lerp.v >= lerp.c1
       /\ lerp.i = steps => lerp.v = lerp.c1

\* step 14 of 0 -> 90, where the double arithmetic gives 62
C17_Witness ==
  lerp.c0 = 0 /\ lerp.c1 = 90 /\ lerp.i = 14 /\ lerp.v = 62 /\ lerp.prev = 58

\* C18: when no handler is running, a session is alive exactly when the
\* mode selected last is "Rainbow Mode", and rain_thread holds exactly the
\* session that is alive.
C18_SessionIffRainbow ==
  (mainpc \in { "idle", "direct", "loop" })
    => /\ (rain_thread # NoThread) <=> (lastMode = "Rainbow Mode")
       /\ AliveThreads = { rain_thread } \ { NoThread }
       /\ lastMode = "Static Color" => (rain_thread = NoThread /\ options = Buttons)

\* "Rainbow Mode" selected again after a session had been stopped
C18_Witness ==
  /\ mainpc = "idle" /\ lastMode = "Rainbow Mode"
  /\ nthreads >= 2 /\ rain_thread = nthreads /\ Alive(rain_thread)
  /\ stopped # {}

\* C19: a session writes at most one frame after its stop_event was set.
C19_OneLateFrame == \A t \in Threads : th[t].late <= 1

\* a session that wrote a frame after its stop_event was set, and ended
C19_Witness ==
  \E t \in stopped : th[t].late = 1 /\ th[t].pc = "finished"

\* C20: when quit is requested no session is alive and rain_thread is
\* empty, and after it nothing is written and no session runs.
C20_ExitStopsFirst ==
  /\ [](quit => (AliveThreads = {} /\ rain_thread = NoThread))
  /\ [][quit' => (AliveThreads' = {} /\ (quit => UNCHANGED << device, lastw, nfail, th >>))]_vars

\* exit requested while a session was running
C20_Witness ==
  /\ quit /\ lastMode = "Rainbow Mode"
  /\ nthreads \in stopped /\ th[nthreads].n > 0

=============================================================================
